---- MODULE Spec2Model ----
(***************************************************************************)
(* Retriable rolling-ops lock protocol of charm-rolling-ops.                *)
(*                                                                         *)
(* A fleet of units shares one peer relation: one data bag per unit         *)
(* (written by that unit) and one application bag (written by the leader).  *)
(* RetriableLock derives a lock status for a unit from both bags, the      *)
(* retry counter and the workload manager's predicates; the leader's       *)
(* _on_process_locks scans every lock and grants at most one per pass; a    *)
(* granted unit runs the callback in _on_run_with_lock and releases.        *)
(***************************************************************************)
EXTENDS Integers, Sequences, FiniteSets, TLC

\* ------------------------------------------------------------------ bounds
NumUnits == 3
MaxRetry == 2
MaxRemoved == 1
MaxPid == 3

Units == 1..NumUnits
NoUnit == 0
Pids == 1..MaxPid
NoPid == 0

\* ------------------------------------------------- RetriableLockState enum
ACQUIRE == "acquire"
RELEASE == "release"
GRANTED == "granted"
IDLE == "idle"
DEPARTING == "departing"
RETRY_LOCK == "retry-lock"
ACQUIRE_BUT_SVC_NOT_RESPONSIVE == "acquire-but-svc-not-responsive"
STOPPED_BUT_NOT_REQUESTED == "stopped-but-not-requested"

RetriableLockState ==
    {ACQUIRE, RELEASE, GRANTED, IDLE, DEPARTING, RETRY_LOCK,
     ACQUIRE_BUT_SVC_NOT_RESPONSIVE, STOPPED_BUT_NOT_REQUESTED}

\* Outcomes of the operation callback run under the lock.
OK == "ok"
DEFER == "defer"
RETRY_LATER == "retry-later"
ERROR == "error"
Outcomes == {OK, DEFER, RETRY_LATER, ERROR}

VARIABLES
    unit_state,     \* relation.data[unit]["state"]: idle (unset) | acquire | release
    app_state,      \* relation.data[app][str(unit)]: idle (unset) | granted
    retry_lock,     \* relation.data[unit]["retry-lock"], the retrial count
    has_started,    \* relation.data[unit]["has_started"] == "True"
    node_up,        \* workload_manager.is_node_up(unit)
    departing,      \* workload_manager.is_departing()
    leader,         \* the unit for which is_leader() holds
    running,        \* the unit is inside the operation callback
    deferred,       \* the unit has a deferred run_with_lock event to re-deliver
    members,        \* the units of the peer relation (Locks.units)
    status_active,  \* isinstance(self._charm.unit.status, ActiveStatus)
    peers,          \* the peers relation of the unit: none yet | joined | broken
    worker_pid,     \* unit_data["rollingops-worker-pid"]; NoPid when empty
    alive,          \* the pids of the worker processes that have not exited
    interrupted     \* the pids of the live workers that were sent SIGINT

\* The state of RollingOpsAsyncWorker on one unit.
worker_vars == <<status_active, peers, worker_pid, alive, interrupted>>

\* The state of the lock protocol.
lock_vars == <<unit_state, app_state, retry_lock, has_started, node_up,
               departing, leader, running, deferred, members>>

vars == <<unit_state, app_state, retry_lock, has_started, node_up, departing,
          leader, running, deferred, members, status_active, peers,
          worker_pid, alive, interrupted>>

\* The relation data as one value: db.unit, db.app, db.retry, db.started.
Data == [unit |-> unit_state, app |-> app_state,
         retry |-> retry_lock, started |-> has_started]

\* ------------------------------------------------------------ RetriableLock
\* Lock._state of the parent class: the status the two bags encode.
LockState(db, u) ==
    IF db.app[u] = GRANTED /\ db.unit[u] = RELEASE THEN RELEASE
    ELSE IF db.app[u] = IDLE /\ db.unit[u] = ACQUIRE THEN ACQUIRE
    ELSE db.app[u]

unit_is_up(u) == node_up[u]

retrial_count(db, u) == db.retry[u]

has_started_get(db, u) == db.started[u]

\* _state as it would be if the retry count were read after the liveness.
state_retry_after_liveness(db, u) ==
    IF departing THEN DEPARTING
    ELSE LET app_st == LockState(db, u) IN
         IF app_st \in {RELEASE, GRANTED} THEN app_st
         ELSE IF ~unit_is_up(u)
              THEN (IF app_st = ACQUIRE THEN ACQUIRE_BUT_SVC_NOT_RESPONSIVE
                    ELSE STOPPED_BUT_NOT_REQUESTED)
         ELSE IF retrial_count(db, u) > 0 THEN RETRY_LOCK
         ELSE IF app_st = ACQUIRE THEN ACQUIRE
         ELSE IDLE

\* _state as it would be if the liveness of the unit were read before the
\* RELEASE / GRANTED short cut.
state_liveness_first(db, u) ==
    IF departing THEN DEPARTING
    ELSE LET app_st == LockState(db, u) IN
         IF ~unit_is_up(u)
         THEN (IF app_st \in {ACQUIRE, GRANTED} THEN ACQUIRE_BUT_SVC_NOT_RESPONSIVE
               ELSE STOPPED_BUT_NOT_REQUESTED)
         ELSE IF app_st \in {RELEASE, GRANTED} THEN app_st
         ELSE IF retrial_count(db, u) > 0 THEN RETRY_LOCK
         ELSE IF app_st = ACQUIRE THEN ACQUIRE
         ELSE IDLE

\* RetriableLock._state (getter)
state(db, u) ==
    IF departing THEN DEPARTING
    ELSE LET app_st == LockState(db, u) IN
         IF app_st \in {RELEASE, GRANTED} THEN app_st
         ELSE IF retrial_count(db, u) > 0 THEN RETRY_LOCK
         ELSE IF ~unit_is_up(u)
              THEN (IF app_st = ACQUIRE THEN ACQUIRE_BUT_SVC_NOT_RESPONSIVE
                    ELSE STOPPED_BUT_NOT_REQUESTED)
         ELSE IF app_st = ACQUIRE THEN ACQUIRE
         ELSE IDLE

\* The setter as it would be if the status were stored as it is given.
state_set_verbatim(db, u, s) ==
    IF s \in {ACQUIRE, DEPARTING, RETRY_LOCK, ACQUIRE_BUT_SVC_NOT_RESPONSIVE,
              RELEASE}
    THEN [db EXCEPT !.unit[u] = s]
    ELSE [db EXCEPT !.app[u] = s]

\* The setter as it would be if IDLE were written to the unit's own bag.
state_set_idle_to_unit(db, u, s) ==
    IF s \in {ACQUIRE, DEPARTING, RETRY_LOCK, ACQUIRE_BUT_SVC_NOT_RESPONSIVE}
    THEN [db EXCEPT !.unit[u] = ACQUIRE]
    ELSE IF s = RELEASE THEN [db EXCEPT !.unit[u] = RELEASE]
    ELSE IF s = GRANTED THEN [db EXCEPT !.app[u] = GRANTED]
    ELSE IF s \in {IDLE, STOPPED_BUT_NOT_REQUESTED} THEN [db EXCEPT !.unit[u] = IDLE]
    ELSE db

\* RetriableLock._state (setter)
state_set(db, u, s) ==
    IF s \in {ACQUIRE, DEPARTING, RETRY_LOCK, ACQUIRE_BUT_SVC_NOT_RESPONSIVE}
    THEN [db EXCEPT !.unit[u] = ACQUIRE]
    ELSE IF s = RELEASE THEN [db EXCEPT !.unit[u] = RELEASE]
    ELSE IF s = GRANTED THEN [db EXCEPT !.app[u] = GRANTED]
    ELSE IF s \in {IDLE, STOPPED_BUT_NOT_REQUESTED} THEN [db EXCEPT !.app[u] = IDLE]
    ELSE db

acquire(db, u) == state_set(db, u, ACQUIRE)
release(db, u) == state_set(db, u, RELEASE)
clear(db, u) == state_set(db, u, IDLE)
grant(db, u) == state_set(db, u, GRANTED)

\* is_blocked as it would be if a stopped service did not block.
is_blocked_departing_only(db, u) ==
    has_started_get(db, u) /\ state(db, u) = DEPARTING

\* is_blocked as it would be if a departure did not block.
is_blocked_stopped_only(db, u) ==
    has_started_get(db, u) /\ state(db, u) = STOPPED_BUT_NOT_REQUESTED

is_blocked(db, u) ==
    has_started_get(db, u)
    /\ (state(db, u) = DEPARTING \/ state(db, u) = STOPPED_BUT_NOT_REQUESTED)

is_held(db, u) == state(db, u) = GRANTED

release_requested(db, u) == state(db, u) = RELEASE

is_pending(db, u) ==
    state(db, u) \in {ACQUIRE, DEPARTING, RETRY_LOCK, ACQUIRE_BUT_SVC_NOT_RESPONSIVE}

started(db, u) == [db EXCEPT !.started[u] = TRUE]

retry(db, u) == state(db, u) = RETRY_LOCK

retrial_count_set(db, u, n) == [db EXCEPT !.retry[u] = n]

acquire_with_stopped_service(db, u) == state(db, u) = ACQUIRE_BUT_SVC_NOT_RESPONSIVE

\* RetriableLock.__init__ as it would be if it did not ask whether the unit
\* is up.
RetriableLockInit_always(db, self, u) ==
    IF self = u THEN started(db, u) ELSE db

\* RetriableLock.__init__ as it would be if it latched the flag of any unit
\* that is up, not only of the unit that runs the hook.
RetriableLockInit_any(db, self, u) ==
    IF unit_is_up(u) THEN started(db, u) ELSE db

\* RetriableLock.__init__ as it would be if it stored the liveness it reads
\* instead of latching it.
RetriableLockInit_unlatched(db, self, u) ==
    IF self = u THEN [db EXCEPT !.started[u] = unit_is_up(u)] ELSE db

\* RetriableLock.__init__ run by unit `self` for the lock of unit u.
RetriableLockInit(db, self, u) ==
    IF self = u /\ unit_is_up(u) THEN started(db, u) ELSE db

\* ----------------------------------------------- RetriableRollingOpsManager
\* _should_lock_be_reacquired, evaluated by unit u on its own lock.
should_lock_be_reacquired(db, u) ==
    LET d == RetriableLockInit(db, u, u) IN
    retry(d, u) /\ ~(is_held(d, u) \/ is_pending(d, u))

\* _on_acquire_lock: restart the retry counter, then Lock.acquire().
on_acquire_lock(db, u) ==
    acquire(retrial_count_set(RetriableLockInit(db, u, u), u, 0), u)

\* RetriableRollingOpsManager.__init__, run by unit u at the start of every
\* hook: builds its own lock and re-issues the request when it should.
ManagerInit(db, u) ==
    LET d == RetriableLockInit(db, u, u) IN
    IF should_lock_be_reacquired(d, u) THEN on_acquire_lock(d, u) ELSE d

\* First loop of _on_process_locks over RetriableLocks, from the i-th unit on.
\* complete = FALSE when the loop returned (a held or a blocked lock).
\* Each lock's data is bound once, as a value, before it is tested
\* (d \in {e} evaluates e a single time).
RECURSIVE Scan(_, _, _, _)
\* ... after lock.clear(): is_blocked, is_pending, then the next lock.
ScanCleared(db, self, i, pending) ==
    IF is_blocked(db, i)
    THEN [complete |-> FALSE, db |-> db, pending |-> pending]
    ELSE Scan(db, self, i + 1,
              IF is_pending(db, i)
              THEN (IF i = self THEN <<i>> \o pending ELSE Append(pending, i))
              ELSE pending)

\* The first loop as it would be without the is_held return.
ScanLock_ignore_held(db, self, i, pending) ==
    CHOOSE r \in {ScanCleared(d, self, i, p) :
                     d \in {IF release_requested(db, i) THEN clear(db, i) ELSE db},
                     p \in {pending}} : TRUE

\* The first loop as it would be if a requested release were not cleared.
ScanLock_noclear(db, self, i, pending) ==
    IF is_held(db, i)
    THEN [complete |-> FALSE, db |-> db, pending |-> pending]
    ELSE ScanCleared(db, self, i, pending)

\* ... the lock of unit i is built: is_held, release_requested.
ScanLock(db, self, i, pending) ==
    IF is_held(db, i)
    THEN [complete |-> FALSE, db |-> db, pending |-> pending]
    ELSE CHOOSE r \in {ScanCleared(d, self, i, p) :
                          d \in {IF release_requested(db, i) THEN clear(db, i) ELSE db},
                          p \in {pending}} : TRUE

\* The first loop as it would be if it also built a lock for a unit that has
\* left the relation.
Scan_all_units(db, self, i, pending) ==
    IF i > NumUnits THEN [complete |-> TRUE, db |-> db, pending |-> pending]
    ELSE CHOOSE r \in {ScanLock(d, self, i, p) :
                          d \in {RetriableLockInit(db, self, i)},
                          p \in {pending}} : TRUE

Scan(db, self, i, pending) ==
    IF i > NumUnits THEN [complete |-> TRUE, db |-> db, pending |-> pending]
    ELSE IF i \notin members THEN Scan(db, self, i + 1, pending)
    ELSE CHOOSE r \in {ScanLock(d, self, i, p) :
                          d \in {RetriableLockInit(db, self, i)},
                          p \in {pending}} : TRUE

\* Second loop: the first pending lock that acquired with the service stopped
\* or that retries; NoUnit when there is none.
RECURSIVE FirstPriority(_, _, _)
FirstPriority(db, pending, k) ==
    IF k > Len(pending) THEN NoUnit
    ELSE IF acquire_with_stopped_service(db, pending[k]) THEN pending[k]
    ELSE IF retry(db, pending[k]) THEN pending[k]
    ELSE FirstPriority(db, pending, k + 1)

\* next_lock_to_process as it would be without the pending[-1] fallback.
next_lock_to_process_priority_only(db, pending) ==
    FirstPriority(db, pending, 1)

\* next_lock_to_process as it would be without the priority loop.
next_lock_to_process_last(db, pending) ==
    IF Len(pending) > 0 THEN pending[Len(pending)] ELSE NoUnit

\* next_lock_to_process as it would be if plain requests were served from
\* the front of the pending list.
next_lock_to_process_front(db, pending) ==
    LET first == FirstPriority(db, pending, 1) IN
    IF first = NoUnit /\ Len(pending) > 0 THEN pending[1] ELSE first

next_lock_to_process(db, pending) ==
    LET first == FirstPriority(db, pending, 1) IN
    IF first = NoUnit /\ Len(pending) > 0 THEN pending[Len(pending)] ELSE first

\* _on_process_locks as it would be without the leader check.
on_process_locks_any_unit(db, self) ==
    CHOOSE r \in
      {IF ~sc.complete
       THEN [db |-> sc.db, winner |-> NoUnit, pending |-> sc.pending,
             run |-> FALSE]
       ELSE CHOOSE g \in
              {IF w = NoUnit
               THEN [db |-> sc.db, winner |-> NoUnit, pending |-> sc.pending,
                     run |-> FALSE]
               ELSE [db |-> grant(sc.db, w), winner |-> w,
                     pending |-> sc.pending, run |-> (w = self)] :
               w \in {next_lock_to_process(sc.db, sc.pending)}} : TRUE :
       sc \in {Scan(db, self, 1, <<>>)}} : TRUE

\* _on_process_locks as it would be if the leader did not emit run_with_lock
\* for itself.
on_process_locks_no_emit(db, self) ==
    IF self # leader
    THEN [db |-> db, winner |-> NoUnit, pending |-> <<>>, run |-> FALSE]
    ELSE CHOOSE r \in
           {IF ~sc.complete
            THEN [db |-> sc.db, winner |-> NoUnit, pending |-> sc.pending,
                  run |-> FALSE]
            ELSE CHOOSE g \in
                   {IF w = NoUnit
                    THEN [db |-> sc.db, winner |-> NoUnit, pending |-> sc.pending,
                          run |-> FALSE]
                    ELSE [db |-> grant(sc.db, w), winner |-> w,
                          pending |-> sc.pending, run |-> FALSE] :
                    w \in {next_lock_to_process(sc.db, sc.pending)}} : TRUE :
            sc \in {Scan(db, self, 1, <<>>)}} : TRUE

\* _on_process_locks run by unit self on data db: the data it leaves, the
\* unit it granted (NoUnit when none) and whether it emitted run_with_lock.
on_process_locks(db, self) ==
    IF self # leader
    THEN [db |-> db, winner |-> NoUnit, pending |-> <<>>, run |-> FALSE]
    ELSE CHOOSE r \in
           {IF ~sc.complete
            THEN [db |-> sc.db, winner |-> NoUnit, pending |-> sc.pending,
                  run |-> FALSE]
            ELSE CHOOSE g \in
                   {IF w = NoUnit
                    THEN [db |-> sc.db, winner |-> NoUnit, pending |-> sc.pending,
                          run |-> FALSE]
                    ELSE [db |-> grant(sc.db, w), winner |-> w,
                          pending |-> sc.pending, run |-> (w = self)] :
                    w \in {next_lock_to_process(sc.db, sc.pending)}} : TRUE :
            sc \in {Scan(db, self, 1, <<>>)}} : TRUE

\* _on_run_with_lock as it would be if any exception of the callback counted
\* as a retry.
on_run_with_lock_error_counted(db, u, o) ==
    IF o = OK THEN release(db, u)
    ELSE release(retrial_count_set(release(db, u), u, retrial_count(db, u) + 1), u)

\* _on_run_with_lock as it would be if a deferral did not count as a retry.
on_run_with_lock_uncounted(db, u, o) ==
    IF o = RETRY_LATER
    THEN release(retrial_count_set(db, u, retrial_count(db, u) + 1), u)
    ELSE release(db, u)

\* _on_run_with_lock once the callback has ended with outcome o.
on_run_with_lock(db, u, o) ==
    IF o = OK THEN release(db, u)
    ELSE IF o = DEFER
    THEN release(retrial_count_set(release(db, u), u, retrial_count(db, u) + 1), u)
    ELSE IF o = RETRY_LATER
    THEN release(retrial_count_set(db, u, retrial_count(db, u) + 1), u)
    ELSE release(db, u)

\* ------------------------------------------------------------------ actions
\* No worker has been started: no relation yet, nothing recorded.
PEERS_NONE == "none"
PEERS_JOINED == "joined"
PEERS_BROKEN == "broken"

WorkerInit ==
    /\ status_active = FALSE
    /\ peers = PEERS_NONE
    /\ worker_pid = NoPid
    /\ alive = {}
    /\ interrupted = {}

Store(db) ==
    /\ unit_state' = db.unit
    /\ app_state' = db.app
    /\ retry_lock' = db.retry
    /\ has_started' = db.started

Free(u) == u \in members /\ ~running[u] /\ ~deferred[u]

Init ==
    /\ unit_state = [u \in Units |-> IDLE]
    /\ app_state = [u \in Units |-> IDLE]
    /\ retry_lock = [u \in Units |-> 0]
    /\ has_started = [u \in Units |-> FALSE]
    /\ node_up = [u \in Units |-> FALSE]
    /\ departing = FALSE
    /\ leader \in Units
    /\ running = [u \in Units |-> FALSE]
    /\ deferred = [u \in Units |-> FALSE]
    /\ members = Units
    /\ WorkerInit

\* The acquire_lock event on unit u (an action or another handler of the charm).
AcquireLock(u) ==
    /\ Free(u)
    /\ Store(on_acquire_lock(ManagerInit(Data, u), u))
    /\ UNCHANGED worker_vars
    /\ UNCHANGED <<node_up, departing, leader, running, deferred, members>>

\* A relation-changed (or update-status, leader-elected, relation-departed)
\* hook on unit u that finds its lock held: run_with_lock is emitted and the
\* callback starts.
RunWithLock(u) ==
    /\ Free(u)
    /\ is_held(ManagerInit(Data, u), u)
    /\ Store(ManagerInit(Data, u))
    /\ running' = [running EXCEPT ![u] = TRUE]
    /\ UNCHANGED worker_vars
    /\ UNCHANGED <<node_up, departing, leader, deferred, members>>

\* The deferred run_with_lock event is re-emitted at unit u's next hook.
RedeliverRun(u) ==
    /\ ~running[u]
    /\ deferred[u]
    /\ Store(ManagerInit(Data, u))
    /\ running' = [running EXCEPT ![u] = TRUE]
    /\ deferred' = [deferred EXCEPT ![u] = FALSE]
    /\ UNCHANGED worker_vars
    /\ UNCHANGED <<node_up, departing, leader, members>>

\* The callback of unit u ends with outcome o; _on_run_with_lock finishes.
FinishRun(u, o) ==
    /\ running[u]
    /\ o \in {DEFER, RETRY_LATER} => retry_lock[u] < MaxRetry
    /\ Store(on_run_with_lock(Data, u, o))
    /\ running' = [running EXCEPT ![u] = FALSE]
    /\ deferred' = [deferred EXCEPT ![u] = (o = DEFER)]
    /\ UNCHANGED worker_vars
    /\ UNCHANGED <<node_up, departing, leader, members>>

\* A hook on unit u that reaches _on_process_locks.
ProcessLocks(u) ==
    /\ Free(u)
    /\ \E d \in {ManagerInit(Data, u)} :
          \E r \in {on_process_locks(d, u)} :
             /\ Store(r.db)
             /\ running' = [running EXCEPT ![u] = r.run]
          /\ UNCHANGED worker_vars
          /\ UNCHANGED <<node_up, departing, leader, deferred, members>>

\* The workload manager's predicates change.
NodeUpChange(u) ==
    /\ node_up' = [node_up EXCEPT ![u] = ~node_up[u]]
    /\ UNCHANGED worker_vars
    /\ UNCHANGED <<unit_state, app_state, retry_lock, has_started, departing,
                   leader, running, deferred, members>>

DepartingChange ==
    /\ departing' = ~departing
    /\ UNCHANGED worker_vars
    /\ UNCHANGED <<unit_state, app_state, retry_lock, has_started, node_up,
                   leader, running, deferred, members>>

Next ==
    \/ \E u \in Units : AcquireLock(u)
    \/ \E u \in Units : RunWithLock(u)
    \/ \E u \in Units : RedeliverRun(u)
    \/ \E u \in Units, o \in Outcomes : FinishRun(u, o)
    \/ \E u \in Units : ProcessLocks(u)
    \/ \E u \in Units : NodeUpChange(u)
    \/ DepartingChange

Spec == Init /\ [][Next]_vars

TypeOK ==
    /\ unit_state \in [Units -> {IDLE, ACQUIRE, RELEASE}]
    /\ app_state \in [Units -> {IDLE, GRANTED}]
    /\ retry_lock \in [Units -> 0..MaxRetry]
    /\ has_started \in [Units -> BOOLEAN]
    /\ node_up \in [Units -> BOOLEAN]
    /\ departing \in BOOLEAN
    /\ leader \in Units
    /\ running \in [Units -> BOOLEAN]
    /\ deferred \in [Units -> BOOLEAN]
    /\ members \in SUBSET Units
    /\ status_active \in BOOLEAN
    /\ peers \in {PEERS_NONE, PEERS_JOINED, PEERS_BROKEN}
    /\ worker_pid \in Pids \cup {NoPid}
    /\ alive \in SUBSET Pids
    /\ interrupted \in SUBSET alive

\* ------------------------------------------------------------------ claims
\* The derived status of unit u on the current relation data.
Status(u) == state(Data, u)

\* The pass the leader runs on the current state, when it is free to run a
\* hook: the data it leaves, the unit it grants, whether it runs the callback.
Pass == on_process_locks(ManagerInit(Data, leader), leader)
PassEnabled == Free(leader)

\* The pass run on the current state grants unit u.
Granted(u) == PassEnabled /\ Pass.winner = u /\ Pass.db.app[u] = GRANTED

\* The relation data once every requested release has been cleared, as it is
\* when a pass that scanned every lock selects the next lock.
AfterClear ==
    [Data EXCEPT !.app = [x \in Units |->
        IF release_requested(Data, x) THEN IDLE ELSE app_state[x]]]

\* The status of unit u when the pass selects the next lock.
SelStatus(u) == state(AfterClear, u)

\* C1: in every reachable state at most one unit has derived status GRANTED.
C1_AtMostOneGranted ==
    Cardinality({u \in Units : Status(u) = GRANTED}) <= 1

\* C2: no two different units are inside the operation callback at once.
C2_NoConcurrentCallback ==
    \A u, v \in Units : running[u] /\ running[v] => u = v

\* C3: while is_departing() holds, no pass grants any unit.
C3_NoGrantWhileDeparting ==
    departing => \A u \in Units : ~Granted(u)

\* C4: a unit whose has_started flag is unset is never the unit a pass grants,
\* whatever its liveness predicate says.
C4_NoGrantBeforeStarted ==
    \A u \in Units : Granted(u) => Pass.db.started[u]

C6_ServiceDownBeatsRetry ==
    \A w \in Units :
        Granted(w)
        /\ (\E v \in Units : SelStatus(v) = ACQUIRE_BUT_SVC_NOT_RESPONSIVE)
        => SelStatus(w) = ACQUIRE_BUT_SVC_NOT_RESPONSIVE

\* C7: a unit with plain ACQUIRE status is granted in a pass only if no
\* pending unit of that pass acquired with its service down or retries.
C7_PlainAcquireLast ==
    \A w \in Units :
        Granted(w) /\ SelStatus(w) = ACQUIRE
        => \A v \in Units :
              SelStatus(v) \notin {ACQUIRE_BUT_SVC_NOT_RESPONSIVE, RETRY_LOCK}

\* C7 witness: the pass, run now, grants a plain ACQUIRE unit while another
\* unit is pending with plain ACQUIRE too.
C7_Witness ==
    \E w, v \in Units :
        /\ w # v
        /\ Granted(w)
        /\ SelStatus(w) = ACQUIRE
        /\ SelStatus(v) = ACQUIRE

\* The units pending when the pass selects, and whether it gets to select.
PendingUnits ==
    {v \in Units : SelStatus(v) \in
        {ACQUIRE, DEPARTING, RETRY_LOCK, ACQUIRE_BUT_SVC_NOT_RESPONSIVE}}
AllPlain == \A v \in PendingUnits : SelStatus(v) = ACQUIRE
NoneHeldOrBlocked ==
    \A v \in Units :
        /\ SelStatus(v) # GRANTED
        /\ ~(Pass.db.started[v]
             /\ SelStatus(v) \in {DEPARTING, STOPPED_BUT_NOT_REQUESTED})
LastFollowerPending ==
    CHOOSE v \in PendingUnits \ {leader} :
        \A x \in PendingUnits \ {leader} : x <= v

\* C8: when every pending unit has plain ACQUIRE status and one of them is not
\* the leader, the pass grants the last pending non-leader unit in fleet
\* order and does not run the leader's callback; the leader is granted under
\* plain contention only when it is the sole pending unit.
C8_LeaderServedLast ==
    PassEnabled /\ AllPlain =>
        /\ (NoneHeldOrBlocked /\ PendingUnits \ {leader} # {}
            => /\ Granted(LastFollowerPending)
               /\ \A x \in Units \ {LastFollowerPending} : Pass.db.app[x] = IDLE
               /\ ~Pass.run)
        /\ (Granted(leader) => PendingUnits = {leader})

\* C8 witness: the leader and both followers are pending with plain ACQUIRE
\* and the pass, run now, grants a follower.
C8_Witness ==
    /\ PendingUnits = Units
    /\ AllPlain
    /\ \E w \in Units \ {leader} : Granted(w)

\* C8 witness of its second half: the leader is the sole pending unit and the
\* pass grants it.
C8_WitnessLeader ==
    /\ PendingUnits = {leader}
    /\ AllPlain
    /\ Granted(leader)

\* ---------------------------------------------------------- retry scenario
\* The fleet with every service up and nothing departing, where a unit is
\* asked for the lock from outside only while it has never requested it:
\* any later request of a unit is one it re-issued itself.
InitRetry ==
    /\ unit_state = [u \in Units |-> IDLE]
    /\ app_state = [u \in Units |-> IDLE]
    /\ retry_lock = [u \in Units |-> 0]
    /\ has_started = [u \in Units |-> TRUE]
    /\ node_up = [u \in Units |-> TRUE]
    /\ departing = FALSE
    /\ leader \in Units
    /\ running = [u \in Units |-> FALSE]
    /\ deferred = [u \in Units |-> FALSE]
    /\ members = Units
    /\ WorkerInit

FirstAcquireLock(u) == unit_state[u] = IDLE /\ AcquireLock(u)

FinishSomeRun(u) == \E o \in Outcomes : FinishRun(u, o)

NextRetry ==
    \/ \E u \in Units : FirstAcquireLock(u)
    \/ \E u \in Units : RunWithLock(u)
    \/ \E u \in Units : RedeliverRun(u)
    \/ \E u \in Units : FinishSomeRun(u)
    \/ \E u \in Units : ProcessLocks(u)

\* Every unit keeps receiving hooks (relation-changed, update-status) and
\* every callback ends.
FairRetry ==
    \A u \in Units :
        /\ WF_vars(RunWithLock(u))
        /\ WF_vars(RedeliverRun(u))
        /\ WF_vars(FinishSomeRun(u))
        /\ WF_vars(ProcessLocks(u))

SpecRetry == InitRetry /\ [][NextRetry]_vars /\ FairRetry

\* Unit u signalled retry-later and wrote its release; under FairRetry the
\* leader's passes keep running, so the release is cleared.
DeferredAndReleased(u) ==
    retry_lock[u] > 0 /\ unit_state[u] = RELEASE

\* Unit u has a fresh request of its own: ACQUIRE with the counter at 0.
Resubmitted(u) ==
    retry_lock[u] = 0 /\ unit_state[u] = ACQUIRE

\* C9: after a unit's operation signalled deferral and its release was
\* cleared, the unit eventually re-submits a fresh ACQUIRE for itself, with
\* its retry count reset to 0, without any request from outside.
C9_EventuallyResubmits ==
    \A u \in Units : DeferredAndReleased(u) ~> Resubmitted(u)

\* The first loop of the pass the leader runs on the current state.
PassScan == Scan(ManagerInit(Data, leader), leader, 1, <<>>)

\* Unit u holds the grant, signalled retry-later and wrote its release.
RetryReleased(u) ==
    app_state[u] = GRANTED /\ unit_state[u] = RELEASE /\ retry_lock[u] > 0

\* What _on_run_with_lock leaves when the callback of a running unit signals
\* retry-later: the count one higher, the unit's state release, nothing else.
RetryLaterEffect ==
    \A u \in Units, o \in {DEFER, RETRY_LATER} :
        running[u] /\ retry_lock[u] < MaxRetry
        => on_run_with_lock(Data, u, o) =
               [Data EXCEPT !.retry[u] = retry_lock[u] + 1, !.unit[u] = RELEASE]

\* C10 (as stated): a retry-later outcome adds exactly 1 to the unit's retry
\* count and writes RELEASE in the same run step, and the leader's next pass
\* clears the unit's entry of the application bag.
C10_RetryLaterThenCleared ==
    /\ RetryLaterEffect
    /\ \A u \in Units :
          PassEnabled /\ RetryReleased(u) => PassScan.db.app[u] = IDLE

\* The pass reaches unit u: nothing is departing and no unit before u in fleet
\* order is held or blocked.
PassReaches(u) ==
    /\ ~departing
    /\ \A v \in Units :
          v < u =>
            /\ SelStatus(v) # GRANTED
            /\ ~(Pass.db.started[v] /\ SelStatus(v) = STOPPED_BUT_NOT_REQUESTED)

\* C10 (amended): a retry-later outcome adds exactly 1 to the unit's retry
\* count and writes RELEASE in the same run step; the leader's next pass
\* clears the unit's entry provided nothing is departing and no unit earlier
\* in fleet order is held or blocked.
C10_RetryLaterThenClearedIfReached ==
    /\ RetryLaterEffect
    /\ \A u \in Units :
          PassEnabled /\ RetryReleased(u) /\ PassReaches(u)
          => PassScan.db.app[u] = IDLE

\* C10 witness: a unit deferred under the grant (count 1, release written),
\* and the pass, run now, clears its entry.
C10_Witness ==
    \E u \in Units :
        /\ RetryReleased(u) /\ retry_lock[u] = 1 /\ deferred[u]
        /\ PassEnabled /\ PassReaches(u)
        /\ PassScan.db.app[u] = IDLE

\* C11: when the callback of the granted unit raises an error other than
\* the retry-later signal, _on_run_with_lock leaves the same relation data as
\* on the deferral path: the retry count one higher and RELEASE written.
C11_ErrorCountsAsRetry ==
    \A u \in Units :
        running[u] /\ retry_lock[u] < MaxRetry
        => /\ on_run_with_lock(Data, u, ERROR).retry[u] = retry_lock[u] + 1
           /\ on_run_with_lock(Data, u, ERROR).unit[u] = RELEASE
           /\ on_run_with_lock(Data, u, ERROR) = on_run_with_lock(Data, u, RETRY_LATER)

\* Every unit reads IDLE and no entry of the application bag is granted.
AllIdle ==
    \A u \in Units : Status(u) = IDLE /\ app_state[u] = IDLE

\* C12: when the callback ends normally the unit writes RELEASE and keeps
\* its retry count; with every service up and nothing departing, once the
\* release is cleared the unit reads IDLE and the pass does not grant it
\* again (no new request has been made: its bag still says release).
C12_SuccessThenIdle ==
    [][\A u \in Units :
          running[u] /\ FinishRun(u, OK)
          => /\ unit_state'[u] = RELEASE
             /\ retry_lock'[u] = retry_lock[u]
             /\ SelStatus(u)' = IDLE
             /\ ~Granted(u)']_vars

\* Follower u requested alone, was granted and its callback ended without a
\* deferral: release written, count 0, every other unit untouched.
OneSucceeded(u) ==
    /\ u # leader
    /\ app_state[u] = GRANTED /\ unit_state[u] = RELEASE
    /\ \A v \in Units : retry_lock[v] = 0 /\ ~running[v] /\ ~deferred[v]
    /\ \A v \in Units \ {u} : app_state[v] = IDLE /\ unit_state[v] = IDLE

\* C13: three units up, started, nothing departing, retry counts 0; after one
\* follower was granted and its callback succeeded, one further leader pass
\* leaves every unit IDLE and no entry of the application bag granted.
C13_OneRequestRoundTrip ==
    [][\A u \in Units :
          OneSucceeded(u) /\ ProcessLocks(leader) => AllIdle']_vars

\* C13 witness: the fleet after that pass: a follower's bag still says
\* release, every unit reads IDLE and nothing is granted.
C13_Witness ==
    /\ AllIdle
    /\ \E u \in Units \ {leader} :
          /\ unit_state[u] = RELEASE
          /\ \A v \in Units \ {u} : unit_state[v] = IDLE
    /\ \A v \in Units : retry_lock[v] = 0 /\ ~running[v] /\ ~deferred[v]

\* -------------------------------------------------------- success scenario
\* The fleet with every service up and nothing departing, where every
\* callback ends normally: a unit is asked for the lock while its bag is
\* idle, is granted, runs and releases.
FinishOk(u) == FinishRun(u, OK)

NextSuccess ==
    \/ \E u \in Units : FirstAcquireLock(u)
    \/ \E u \in Units : RunWithLock(u)
    \/ \E u \in Units : FinishOk(u)
    \/ \E u \in Units : ProcessLocks(u)

\* Every unit keeps receiving hooks and every callback ends.
FairSuccess ==
    \A u \in Units :
        /\ WF_vars(RunWithLock(u))
        /\ WF_vars(FinishOk(u))
        /\ WF_vars(ProcessLocks(u))

SpecSuccess == InitRetry /\ [][NextSuccess]_vars /\ FairSuccess

\* C14: when several units, the leader among them, request the lock, all
\* are up and started, nothing departs and every callback succeeds, then
\* under fair delivery of hooks every requester is eventually granted and
\* runs its callback, and the fleet returns to every unit IDLE.
C14_AllRequestersServed ==
    /\ \A u \in Units : (unit_state[u] = ACQUIRE) ~> running[u]
    /\ \A u \in Units : running[u] ~> AllIdle

\* C14 witness: every unit, the leader among them, has an open request and
\* the pass has granted one of them.
C14_Witness ==
    /\ \A u \in Units : unit_state[u] = ACQUIRE
    /\ \E u \in Units : app_state[u] = GRANTED

\* ---------------------------------------------------- stuck-holder scenario
\* The same fleet where hooks keep arriving but a callback need not end: the
\* holder may never write RELEASE.
FairStuck ==
    \A u \in Units :
        /\ WF_vars(RunWithLock(u))
        /\ WF_vars(ProcessLocks(u))

SpecStuck == InitRetry /\ [][NextSuccess]_vars /\ FairStuck

PassStart == ManagerInit(Data, leader)
StartStatus(u) == state(PassStart, u)

\* C16: in a pass where some unit reads GRANTED the leader abstains: it
\* writes nothing to any bag, grants nobody and runs no callback.
C16_HeldPassWritesNothing ==
    PassEnabled /\ (\E u \in Units : StartStatus(u) = GRANTED)
    => /\ Pass.db = PassStart
       /\ Pass.winner = NoUnit
       /\ ~Pass.run

\* C17 (as stated): a unit that holds the lock and is reported down reads
\* ACQUIRE_BUT_SVC_NOT_RESPONSIVE or STOPPED_BUT_NOT_REQUESTED, not GRANTED.
C17_DownHolderNotGranted ==
    \A u \in Units :
        app_state[u] = GRANTED /\ unit_state[u] # RELEASE /\ ~node_up[u]
        => Status(u) \in {ACQUIRE_BUT_SVC_NOT_RESPONSIVE, STOPPED_BUT_NOT_REQUESTED}

\* C17 (amended): a unit that holds the lock and is reported down still
\* reads GRANTED (DEPARTING while is_departing() holds): liveness refines
\* only the ACQUIRE and IDLE statuses, so the pass treats it as the holder.
C17_DownHolderStaysGranted ==
    \A u \in Units :
        app_state[u] = GRANTED /\ unit_state[u] # RELEASE /\ ~node_up[u]
        => /\ Status(u) = (IF departing THEN DEPARTING ELSE GRANTED)
           /\ ~departing => is_held(Data, u)
           /\ PassEnabled /\ ~departing => Pass.winner = NoUnit

\* C17 witness: a unit inside its callback, holding the lock, is reported
\* down while another unit has an open request.
C17_Witness ==
    \E u, v \in Units :
        /\ u # v
        /\ app_state[u] = GRANTED /\ unit_state[u] = ACQUIRE /\ running[u]
        /\ ~node_up[u] /\ ~departing
        /\ Status(v) = ACQUIRE
        /\ PassEnabled

\* No unit reads GRANTED when the pass starts.
NoneHeld == \A u \in Units : StartStatus(u) # GRANTED

\* Unit v has started, is down, has no request and no retry count.
StoppedStarted(v) ==
    has_started_get(PassStart, v) /\ StartStatus(v) = STOPPED_BUT_NOT_REQUESTED

\* C18: in a pass where no unit is held and some started unit reads
\* STOPPED_BUT_NOT_REQUESTED, no grant is written and no callback is run,
\* whatever else is pending and wherever the stopped unit sits in fleet order.
C18_StoppedUnitBlocksGrants ==
    PassEnabled /\ NoneHeld /\ (\E v \in Units : StoppedStarted(v))
    => /\ Pass.winner = NoUnit
       /\ ~Pass.run
       /\ \A x \in Units : Pass.db.app[x] = GRANTED => app_state[x] = GRANTED

\* C18 witness: the last unit in fleet order is stopped and started while an
\* earlier unit has an open request and another retries.
C18_Witness ==
    /\ PassEnabled /\ NoneHeld
    /\ StoppedStarted(NumUnits)
    /\ \E u, v \in Units :
          /\ StartStatus(u) \in {ACQUIRE, ACQUIRE_BUT_SVC_NOT_RESPONSIVE}
          /\ StartStatus(v) = RETRY_LOCK

\* C19 (as stated): in a pass where no unit is held, every unit that reads
\* RELEASE when the pass starts has its entry of the application bag set to
\* idle by the first loop of that pass, also when another unit is blocked.
C19_ReleaseClearedSamePass ==
    PassEnabled /\ NoneHeld
    => \A u \in Units : StartStatus(u) = RELEASE => PassScan.db.app[u] = IDLE

\* No unit before u in fleet order is blocked once its own release, if any,
\* has been cleared.
NoneBlockedBefore(u) ==
    \A v \in Units :
        v < u => ~(has_started_get(PassStart, v)
                   /\ SelStatus(v) = STOPPED_BUT_NOT_REQUESTED)

\* C19 (amended): in a pass where no unit is held, a unit that reads RELEASE
\* when the pass starts has its entry set to idle by the first loop provided no
\* unit before it in fleet order is blocked; behind a blocked unit its entry
\* stays granted in that pass.
C19_ReleaseClearedIfReached ==
    PassEnabled /\ NoneHeld
    => \A u \in Units :
          StartStatus(u) = RELEASE
          => PassScan.db.app[u] = (IF NoneBlockedBefore(u) THEN IDLE ELSE GRANTED)

\* C19 witness: a unit reads RELEASE, a unit after it in fleet order is
\* blocked, and the pass, run now, clears the release.
C19_Witness ==
    \E u, v \in Units :
        /\ u < v
        /\ PassEnabled /\ NoneHeld
        /\ StartStatus(u) = RELEASE
        /\ StoppedStarted(v)
        /\ PassScan.db.app[u] = IDLE

\* C20: when a pass writes a grant, no unit whose own bag says release
\* still has its entry of the application bag granted: every release was
\* cleared before the grant.
C20_NoGrantBeforeClear ==
    \A w \in Units :
        Granted(w)
        => \A u \in Units \ {w} :
              ~(unit_state[u] = RELEASE /\ app_state[u] = GRANTED
                /\ Pass.db.app[u] = GRANTED)

\* Data d, left by a handler run on unit u, differs from the current data
\* only in u's own bag and, when u is the leader, in the application bag.
Frame(u, d) ==
    /\ \A v \in Units \ {u} :
          /\ d.unit[v] = unit_state[v]
          /\ d.retry[v] = retry_lock[v]
          /\ d.started[v] = has_started[v]
    /\ u # leader => d.app = app_state

\* C21: every handler (constructor latch and re-issue, acquire, pass, run
\* step with any outcome) run on unit u writes only u's own bag, and the
\* application bag only when u is the leader.
C21_SingleWriter ==
    \A u \in Units :
        /\ Frame(u, ManagerInit(Data, u))
        /\ Frame(u, on_acquire_lock(ManagerInit(Data, u), u))
        /\ Frame(u, on_process_locks(ManagerInit(Data, u), u).db)
        /\ \A o \in Outcomes : Frame(u, on_run_with_lock(Data, u, o))

\* C21 witness: the leader's pass, run now, latches the leader's own flag and
\* grants a follower, while another follower is up and has not started.
C21_Witness ==
    /\ node_up[leader] /\ ~has_started[leader]
    /\ \E w, v \in Units \ {leader} :
          /\ w # v
          /\ Granted(w)
          /\ node_up[v] /\ ~has_started[v]

\* C22: _on_process_locks run on a unit that is not the leader writes no
\* grant and no clear, selects nobody and emits no run_with_lock.
C22_NonLeaderPassIsNoOp ==
    \A u \in Units \ {leader} :
        /\ on_process_locks(ManagerInit(Data, u), u).db = ManagerInit(Data, u)
        /\ on_process_locks(ManagerInit(Data, u), u).winner = NoUnit
        /\ ~on_process_locks(ManagerInit(Data, u), u).run

\* C22 witness: a follower receives a hook while the leader's pass, run on
\* the same data, would clear a release and grant a unit.
C22_Witness ==
    \E u \in Units \ {leader} :
        /\ Free(u)
        /\ \E v \in Units : StartStatus(v) = RELEASE /\ Pass.db.app[v] = IDLE
        /\ \E w \in Units : Granted(w)

\* C23: when the pass grants the leader it emits run_with_lock in that same
\* pass, with the grant written; when it grants a follower, or nobody, it
\* emits nothing.
C23_LeaderRunsInPass ==
    PassEnabled
    => /\ Pass.winner = leader => Pass.run /\ Pass.db.app[leader] = GRANTED
       /\ Pass.winner # leader => ~Pass.run

\* C23 witness: the leader is the only pending unit and the pass, run now,
\* grants it and emits run_with_lock.
C23_Witness ==
    /\ PassEnabled
    /\ Pass.winner = leader
    /\ Pass.run
    /\ app_state[leader] = IDLE

\* The current data with the raw fields of unit u replaced.
RawData(u, us, as, n) ==
    [Data EXCEPT !.unit[u] = us, !.app[u] = as, !.retry[u] = n]

\* The derivation rules in their order: condition and status.
DerivationRules(dep, stored, n, up) ==
    << <<dep, DEPARTING>>,
       <<stored = RELEASE, RELEASE>>,
       <<stored = GRANTED, GRANTED>>,
       <<n > 0, RETRY_LOCK>>,
       <<~up /\ stored = ACQUIRE, ACQUIRE_BUT_SVC_NOT_RESPONSIVE>>,
       <<~up, STOPPED_BUT_NOT_REQUESTED>>,
       <<stored = ACQUIRE, ACQUIRE>>,
       <<TRUE, IDLE>> >>

\* The status of the first rule whose condition holds.
FirstMatch(dep, stored, n, up) ==
    LET r == DerivationRules(dep, stored, n, up)
        i == CHOOSE k \in 1..Len(r) :
                 r[k][1] /\ \A j \in 1..(k - 1) : ~r[j][1]
    IN r[i][2]

\* C24: for every unit and every combination of its stored request, its
\* application-bag entry and its retry count, with is_departing() and
\* is_node_up() as they are, _state is the status of the first matching rule,
\* the stored state being the one the parent class reads from the two bags.
C24_DerivationOrder ==
    \A u \in Units, us \in {IDLE, ACQUIRE, RELEASE}, as \in {IDLE, GRANTED},
       n \in 0..MaxRetry :
        \E d \in {RawData(u, us, as, n)} :
            state(d, u) = FirstMatch(departing, LockState(d, u), n, node_up[u])

\* C24 witness: with the fleet not departing, a unit that is down and has a
\* retry count reads RETRY_LOCK, a unit that is down, has a retry count and
\* was granted again reads RELEASE, and a unit that is down with a request
\* reads ACQUIRE_BUT_SVC_NOT_RESPONSIVE.
C24_Witness ==
    /\ ~departing
    /\ \E u, v, w \in Units :
          /\ ~node_up[u] /\ ~node_up[v] /\ ~node_up[w]
          /\ retry_lock[u] > 0 /\ Status(u) = RETRY_LOCK
          /\ retry_lock[v] > 0 /\ Status(v) = RELEASE
          /\ Status(w) = ACQUIRE_BUT_SVC_NOT_RESPONSIVE

C26_HasStartedMonotonic ==
    [][\A u \in Units : has_started[u] => has_started'[u]]_vars

\* C26 witness: a unit that has started is down, has released after a retry
\* and the fleet is departing.
C26_Witness ==
    \E u \in Units :
        /\ has_started[u]
        /\ ~node_up[u]
        /\ departing
        /\ unit_state[u] = RELEASE
        /\ retry_lock[u] > 0

\* The pass the leader would run right after the pass Pass, on the data that
\* pass left.
SecondPass == on_process_locks(ManagerInit(Pass.db, leader), leader)

\* No unit other than u has a request, a retry count, a grant or a callback
\* under way.
NoOtherRequest(u) ==
    \A v \in Units \ {u} :
        /\ unit_state[v] # ACQUIRE
        /\ retry_lock[v] = 0
        /\ app_state[v] = IDLE
        /\ ~running[v] /\ ~deferred[v]

\* C27: when the callback of granted unit u ends without a deferral and no
\* other unit has a request, the leader's next pass clears u's entry and
\* grants nobody, and the pass after it changes nothing and emits nothing.
C27_IdleSteadyState ==
    [][\A u \in Units :
          running[u] /\ FinishRun(u, OK) /\ NoOtherRequest(u)'
          => /\ (Pass.db.app[u] = IDLE)'
             /\ (Pass.winner = NoUnit)'
             /\ (SecondPass.winner = NoUnit)'
             /\ (SecondPass.db = Pass.db)'
             /\ (~SecondPass.run)']_vars

\* C27 for a unit that was never deferred: the same with a retry count of 0.
C27_IdleSteadyStateUncounted ==
    [][\A u \in Units :
          running[u] /\ FinishRun(u, OK) /\ NoOtherRequest(u)'
          /\ retry_lock[u] = 0
          => /\ (Pass.db.app[u] = IDLE)'
             /\ (Pass.winner = NoUnit)'
             /\ (SecondPass.winner = NoUnit)'
             /\ (SecondPass.db = Pass.db)'
             /\ (~SecondPass.run)']_vars

\* The data after the pass Pass and, when that pass granted the leader, after
\* the callback it ran in the same hook has ended without a deferral.
AfterPass ==
    IF Pass.run THEN on_run_with_lock(Pass.db, leader, OK) ELSE Pass.db

\* The pass the leader would run next on that data.
NextPass == on_process_locks(ManagerInit(AfterPass, leader), leader)

\* C28 as stated: a pass that follows a pass of the leader, with no write of
\* another unit and no predicate change in between, leaves both bags as they
\* are and emits no run_with_lock.
C28_PassIdempotent ==
    PassEnabled => NextPass.db = AfterPass /\ ~NextPass.run

\* C28, amended: the same when the first pass did not grant the leader
\* itself, so that no callback ran between the two passes.
C28_PassIdempotentWithoutCallback ==
    PassEnabled /\ ~Pass.run => SecondPass.db = Pass.db /\ ~SecondPass.run

\* C28 witness: the first pass clears a release and grants a follower; the
\* second pass finds the lock held.
C28_Witness ==
    /\ PassEnabled
    /\ ~Pass.run
    /\ \E v \in Units : StartStatus(v) = RELEASE /\ Pass.db.app[v] = IDLE
    /\ \E w \in Units \ {leader} :
          Granted(w) /\ app_state[w] = IDLE /\ is_held(Pass.db, w)

\* C29: a pass grants only a unit that has a request stored in its own bag
\* or a retry count above 0.
C29_GrantOnlyToRequester ==
    \A u \in Units :
        Granted(u) => unit_state[u] = ACQUIRE \/ retry_lock[u] > 0

\* C29 with is_departing() false.
C29_GrantOnlyToRequesterNotDeparting ==
    \A u \in Units :
        ~departing /\ Granted(u)
        => unit_state[u] = ACQUIRE \/ retry_lock[u] > 0

\* -------------------------------------------------------- removal scenario
\* The success scenario where units may leave the fleet. A unit that is
\* removed leaves the peer relation, runs no further hook and keeps the
\* application-bag entry it had; when it was the leader, another member is
\* elected.
RemoveUnit(u) ==
    /\ u \in members
    /\ Cardinality(Units \ members) < MaxRemoved
    /\ members' = members \ {u}
    /\ running' = [running EXCEPT ![u] = FALSE]
    /\ deferred' = [deferred EXCEPT ![u] = FALSE]
    /\ UNCHANGED worker_vars
    /\ UNCHANGED <<unit_state, app_state, retry_lock, has_started, node_up,
                   departing, leader>>

ElectLeader(u) ==
    /\ leader \notin members
    /\ u \in members
    /\ leader' = u
    /\ UNCHANGED worker_vars
    /\ UNCHANGED <<unit_state, app_state, retry_lock, has_started, node_up,
                   departing, running, deferred, members>>

NextRemoval ==
    \/ \E u \in Units : FirstAcquireLock(u)
    \/ \E u \in Units : RunWithLock(u)
    \/ \E u \in Units : FinishOk(u)
    \/ \E u \in Units : ProcessLocks(u)
    \/ \E u \in Units : RemoveUnit(u)
    \/ \E u \in Units : ElectLeader(u)

\* Every member keeps receiving hooks, every callback ends and a fleet
\* without a leader elects one.
FairRemoval ==
    /\ \A u \in Units :
          /\ WF_vars(RunWithLock(u))
          /\ WF_vars(FinishOk(u))
          /\ WF_vars(ProcessLocks(u))
    /\ WF_vars(\E u \in Units : ElectLeader(u))

SpecRemoval == InitRetry /\ [][NextRemoval]_vars /\ FairRemoval

\* C30: once a unit has been removed, a member whose request is stored is
\* eventually running its callback, and a member that is running it
\* eventually has its release stored and its entry cleared (or has itself
\* been removed).
C30_ServedAfterRemoval ==
    /\ \A v \in Units :
          (members # Units /\ v \in members /\ unit_state[v] = ACQUIRE)
          ~> (running[v] \/ v \notin members)
    /\ \A v \in Units :
          (members # Units /\ v \in members /\ running[v])
          ~> ((unit_state[v] = RELEASE /\ app_state[v] = IDLE)
              \/ v \notin members)

\* C30 witness: the leader was removed while its entry was granted and no
\* leader has been elected yet; a member has a request stored.
C30_Witness ==
    /\ leader \notin members
    /\ app_state[leader] = GRANTED
    /\ \E v \in members : unit_state[v] = ACQUIRE /\ app_state[v] = IDLE

\* C30 witness for a follower: a removed follower left a granted entry and a
\* member has a request stored.
C30_WitnessFollower ==
    /\ leader \in members
    /\ \E r \in Units \ members : app_state[r] = GRANTED
    /\ \E v \in members : unit_state[v] = ACQUIRE /\ app_state[v] = IDLE

\* The value the setter stores for status s, and whether its key is the
\* unit's own state (otherwise the unit's entry of the application bag).
Collapsed(s) ==
    IF s \in {ACQUIRE, DEPARTING, RETRY_LOCK, ACQUIRE_BUT_SVC_NOT_RESPONSIVE}
    THEN [own |-> TRUE, value |-> ACQUIRE]
    ELSE IF s = RELEASE THEN [own |-> TRUE, value |-> RELEASE]
    ELSE IF s = GRANTED THEN [own |-> FALSE, value |-> GRANTED]
    ELSE [own |-> FALSE, value |-> IDLE]

\* C31: the setter, given any status for any unit, writes one key with the
\* collapsed value (the unit's own state for ACQUIRE, DEPARTING, RETRY_LOCK,
\* ACQUIRE_BUT_SVC_NOT_RESPONSIVE and RELEASE; the unit's application-bag
\* entry for GRANTED, IDLE and STOPPED_BUT_NOT_REQUESTED) and leaves the other
\* key, the retry counts, the has_started flags and every other unit's
\* entries as they are.
C31_SetterWritesOneKey ==
    \A u \in Units, s \in RetriableLockState :
        \E d \in {state_set(Data, u, s)} :
            /\ d.retry = retry_lock
            /\ d.started = has_started
            /\ \A v \in Units \ {u} :
                  d.unit[v] = unit_state[v] /\ d.app[v] = app_state[v]
            /\ IF Collapsed(s).own
               THEN d.unit[u] = Collapsed(s).value /\ d.app[u] = app_state[u]
               ELSE d.app[u] = Collapsed(s).value /\ d.unit[u] = unit_state[u]

\* C31 witness: a unit wrote RELEASE after a deferral; its granted entry,
\* its retry count and its flag are as they were, and another unit has a
\* request stored.
C31_Witness ==
    \E u, v \in Units :
        /\ u # v
        /\ unit_state[u] = RELEASE /\ app_state[u] = GRANTED
        /\ retry_lock[u] > 0 /\ has_started[u]
        /\ unit_state[v] = ACQUIRE

\* Data d, left by a handler run on unit self, has no has_started flag
\* changed except that of self, set while self is up.
LatchOnlyOwn(self, d) ==
    \A v \in Units :
        d.started[v] # has_started[v]
        => v = self /\ node_up[self] /\ d.started[v]

\* C32: building the lock of unit u on unit self changes nothing but the
\* has_started flag of self, and that only when u is self and self is up;
\* the same holds for the constructor of the manager, for the leader's scan
\* over all locks and for the whole pass.
C32_LatchOnlyOwnWhenUp ==
    \A self \in Units :
        /\ \A u \in Units :
              \E d \in {RetriableLockInit(Data, self, u)} :
                  /\ d.unit = unit_state /\ d.app = app_state
                  /\ d.retry = retry_lock
                  /\ LatchOnlyOwn(self, d)
                  /\ d # Data => u = self /\ node_up[self]
        /\ LatchOnlyOwn(self, ManagerInit(Data, self))
        /\ LatchOnlyOwn(self, Scan(ManagerInit(Data, self), self, 1, <<>>).db)
        /\ LatchOnlyOwn(self, on_process_locks(ManagerInit(Data, self), self).db)

\* C32 witness: the leader is up and has not started, a follower is up and
\* has not started, another follower is down; the leader's scan latches the
\* leader's flag and no other.
C32_Witness ==
    /\ PassEnabled
    /\ node_up[leader] /\ ~has_started[leader]
    /\ PassScan.db.started[leader]
    /\ \E v, w \in Units \ {leader} :
          /\ node_up[v] /\ ~has_started[v] /\ ~PassScan.db.started[v]
          /\ ~node_up[w] /\ ~has_started[w] /\ ~PassScan.db.started[w]

\* C33: when the pass grants a unit it selected while the unit read
\* RETRY_LOCK, the unit reads GRANTED on the data the pass leaves, so that
\* is_held() is true for it.
C33_RetryGrantIsHeld ==
    \A u \in Units :
        Granted(u) /\ SelStatus(u) = RETRY_LOCK => is_held(Pass.db, u)

\* C34: under fair delivery of hooks a unit that reads plain ACQUIRE is
\* eventually granted, and a retry count above 0 eventually returns to 0.
C34_PlainAcquireEventuallyGranted ==
    /\ \A u \in Units : (Status(u) = ACQUIRE) ~> (app_state[u] = GRANTED)
    /\ \A u \in Units : (retry_lock[u] > 0) ~> (retry_lock[u] = 0)

\* The first half of C34 alone.
C34_PlainAcquireGranted ==
    \A u \in Units : (Status(u) = ACQUIRE) ~> (app_state[u] = GRANTED)

\* C35: in a step in which unit u enters the operation callback, u's entry
\* of the application bag is granted and u's stored state is not release.
C35_CallbackOnlyWhileHeld ==
    [][\A u \in Units :
          ~running[u] /\ running'[u]
          => app_state'[u] = GRANTED /\ unit_state'[u] # RELEASE]_vars

\* C35 for the first delivery of run_with_lock only: the steps in which a
\* deferred event is re-emitted are left out.
C35_FirstDeliveryWhileHeld ==
    [][\A u \in Units :
          ~running[u] /\ running'[u] /\ ~deferred[u]
          => app_state'[u] = GRANTED /\ unit_state'[u] # RELEASE]_vars

\* C36: at most one entry of the application bag has the stored value
\* granted, whatever the derived statuses are.
C36_AtMostOneGrantedEntry ==
    Cardinality({u \in Units : app_state[u] = GRANTED}) <= 1

\* ------------------------------------------------- RollingOpsAsyncWorker
\* os.kill(pid, 0) succeeds: the process has not exited.
pid_alive(pid) == pid \in alive

\* RollingOpsAsyncWorker.start: returns when the unit is not active or has no
\* peers relation, or when the recorded pid is of a live process; otherwise
\* spawns the worker with subprocess.Popen and records its pid.
start ==
    /\ IF ~status_active \/ peers # PEERS_JOINED
       THEN UNCHANGED worker_vars
       ELSE IF worker_pid # NoPid /\ pid_alive(worker_pid)
       THEN UNCHANGED worker_vars
       ELSE \E pid \in Pids \ alive :
               /\ alive' = alive \cup {pid}
               /\ worker_pid' = pid
               /\ UNCHANGED <<status_active, peers, interrupted>>
    /\ UNCHANGED lock_vars

\* RollingOpsAsyncWorker.stop: returns when there is no peers relation or no
\* recorded pid; otherwise sends SIGINT to the recorded pid (the signal is
\* delivered to a live process, which exits later; OSError is ignored) and
\* empties the record without waiting for the process.
stop ==
    /\ IF peers # PEERS_JOINED \/ worker_pid = NoPid
       THEN UNCHANGED worker_vars
       ELSE /\ interrupted' = IF pid_alive(worker_pid)
                              THEN interrupted \cup {worker_pid}
                              ELSE interrupted
            /\ worker_pid' = NoPid
            /\ UNCHANGED <<status_active, peers, alive>>
    /\ UNCHANGED lock_vars

\* A worker process exits: it has dispatched its event (main returns), or it
\* has handled the SIGINT it was sent.
WorkerExit(pid) ==
    /\ pid \in alive
    /\ alive' = alive \ {pid}
    /\ interrupted' = interrupted \ {pid}
    /\ UNCHANGED <<status_active, peers, worker_pid>>
    /\ UNCHANGED lock_vars

\* The unit's status becomes, or stops being, ActiveStatus.
StatusChange ==
    /\ status_active' = ~status_active
    /\ UNCHANGED <<peers, worker_pid, alive, interrupted>>
    /\ UNCHANGED lock_vars

\* The peers relation is created: get_relation stops returning None.
PeersJoined ==
    /\ peers = PEERS_NONE
    /\ peers' = PEERS_JOINED
    /\ UNCHANGED <<status_active, worker_pid, alive, interrupted>>
    /\ UNCHANGED lock_vars

\* The peers relation is gone, and the unit's bag with it.
PeersBroken ==
    /\ peers = PEERS_JOINED
    /\ peers' = PEERS_BROKEN
    /\ worker_pid' = NoPid
    /\ UNCHANGED <<status_active, alive, interrupted>>
    /\ UNCHANGED lock_vars

NextWorker ==
    \/ start
    \/ stop
    \/ \E pid \in Pids : WorkerExit(pid)
    \/ StatusChange
    \/ PeersJoined
    \/ PeersBroken

SpecWorker == Init /\ [][NextWorker]_vars

\* C37: at most one worker process spawned for the unit is alive.
C37_AtMostOneWorkerAlive ==
    Cardinality(alive) <= 1

\* At most one live worker has not been sent SIGINT, and it is the recorded
\* one while the relation is there.
C37_AtMostOneUninterrupted ==
    /\ Cardinality(alive \ interrupted) <= 1
    /\ peers = PEERS_JOINED => alive \ interrupted \subseteq {worker_pid}

\* The effects of start and stop: start spawns only when the unit is active,
\* the relation is there and the recorded pid is empty or of a process that
\* has exited; stop leaves the record empty.
C37_StartStopEffects ==
    [][/\ start /\ alive' # alive
          => /\ status_active /\ peers = PEERS_JOINED
             /\ worker_pid = NoPid \/ ~pid_alive(worker_pid)
       /\ stop => worker_pid' = NoPid]_vars

====
